---------------------------- MODULE Spec2Model ----------------------------
(***************************************************************************)
(* A model of the GitHub repository analyzer: the import-time credential   *)
(* validation and directory-listing patch of agents.py, the Delegation     *)
(* Bridge and team construction of get_router_team, and the Streamlit      *)
(* front end of app_groq.py / utils.py.                                    *)
(***************************************************************************)
EXTENDS Integers, Sequences, FiniteSets, TLC

VARIABLES
    env,          \* process environment after load_dotenv(): the two credentials
    load_pc,      \* position of the import of agents.py
    load_error,   \* message of the ValueError raised by the import, "" if none
    models_built, \* llm_providers built llm_groq / llm_qwen_reasoning
    patched,      \* GithubTools.get_directory_content is safe_get_directory_content
    dl_pc,        \* position inside one get_directory_content call
    dl_args,      \* (repo_name, path, ref) of the call in progress
    dl_events,    \* ordered trace of the calls and prints the call made
    dl_primary,   \* what the original get_directory_content answered
    dl_retry,     \* what the reference-less lookup answered
    dl_result,    \* what the call gave its caller: a return value or a raised error
    agents,       \* every Agent object constructed so far, in construction order
    teams,        \* every Team object constructed so far
    t_pc,         \* position of the team turn in progress
    t_team,       \* the team running the turn (0 if none)
    t_member,     \* the member agent the router selected (0 if none)
    t_runs,       \* agent runs started during the turn, in order
    t_calls,      \* capability calls the selected member issued, in order
    nested_calls, \* capabilities the nested Data Agent run invoked
    br_count,     \* Delegation Bridge invocations during the turn
    br_query,     \* the query argument of the bridge invocation in progress
    br_response,  \* what github_agent.run answered to the bridge
    br_result,    \* what the bridge gave the Reasoning Agent's run loop
    t_trace,      \* starts and ends of the turn's runs and capability calls, in order
    app_pc,       \* position of the Streamlit script run of main()
    inp,          \* the user interaction that triggered the script run
    w_token,      \* widget state of the sidebar text input "github_token_input"
    ss_agent,     \* st.session_state["github_agent"]
    ss_messages,  \* st.session_state["messages"]
    ss_token,     \* st.session_state["github_token"]
    ss_session_id,\* st.session_state["github_agent_session_id"]
    main_agent,   \* the local variable github_agent of main()
    app_run,      \* the agent run main() started for the last user message
    app_response  \* the local variable response of main(), and the chunks consumed

load_vars == <<env, load_pc, load_error, models_built, patched>>
dl_vars   == <<dl_pc, dl_args, dl_events, dl_primary, dl_retry, dl_result>>
build_vars == <<agents, teams>>
turn_vars == <<t_pc, t_team, t_member, t_runs, t_calls, nested_calls,
               br_count, br_query, br_response, br_result, t_trace>>
session_vars == <<w_token, ss_agent, ss_messages, ss_token, ss_session_id>>
app_vars  == <<app_pc, inp, session_vars, main_agent, app_run, app_response>>

-----------------------------------------------------------------------------
(* Python values, as far as the code distinguishes them.                   *)

PyNone      == [type |-> "NoneType", str |-> "", list |-> <<>>]
PyStr(s)    == [type |-> "str", str |-> s, list |-> <<>>]
PyList(l)   == [type |-> "list", str |-> "", list |-> l]
NotSet      == [type |-> "NotSet", str |-> "", list |-> <<>>]

\* Python truthiness of an Optional[str]: `not v` is true for None and "".
Falsy(v) == v.type = "NoneType" \/ (v.type = "str" /\ v.str = "")

Returned(v) == [kind |-> "return", exc |-> "", value |-> v]
Raised(e)   == [kind |-> "raise", exc |-> e, value |-> PyNone]
NoResult    == [kind |-> "none", exc |-> "", value |-> PyNone]

\* Exception classes the external calls can raise.
ExcKinds == {"AssertionError", "GithubException", "RateLimitExceededException", "TypeError"}

-----------------------------------------------------------------------------
(* Import of agents.py (which first imports llm_providers).               *)

EnvValues == {PyNone, PyStr(""), PyStr("tok")}

\* llm_providers.py: GROQ_API_KEY check, then the two Groq model objects.
ImportLlmProviders ==
    /\ load_pc = "start"
    /\ IF Falsy(env.GROQ_API_KEY)
       THEN /\ load_pc' = "failed"
            /\ load_error' = "GROQ_API_KEY not found in .env file."
            /\ models_built' = FALSE
       ELSE /\ load_pc' = "providers"
            /\ load_error' = ""
            /\ models_built' = TRUE
    /\ UNCHANGED <<env, patched>>
    /\ UNCHANGED <<dl_vars, build_vars, turn_vars, app_vars>>

\* The validation with the GITHUB_ACCESS_TOKEN test left out.
CredentialError_GroqOnly ==
    IF Falsy(env.GROQ_API_KEY) THEN "Missing GROQ_API_KEY in environment variables"
    ELSE ""

\* agents.py lines 10-17: both credentials are validated before anything else.
CredentialError ==
    IF Falsy(env.GROQ_API_KEY) THEN "Missing GROQ_API_KEY in environment variables"
    ELSE IF Falsy(env.GITHUB_ACCESS_TOKEN) THEN "Missing GITHUB_ACCESS_TOKEN in environment variables"
    ELSE ""

ValidateCredentials ==
    /\ load_pc = "providers"
    /\ IF CredentialError # ""
       THEN /\ load_pc' = "failed"
            /\ load_error' = CredentialError
       ELSE /\ load_pc' = "validated"
            /\ load_error' = ""
    /\ UNCHANGED <<env, models_built, patched>>
    /\ UNCHANGED <<dl_vars, build_vars, turn_vars, app_vars>>

\* agents.py lines 27-48: the class attribute is rebound to the safe version.
InstallPatch ==
    /\ load_pc = "validated"
    /\ patched' = TRUE
    /\ load_pc' = "loaded"
    /\ UNCHANGED <<env, load_error, models_built>>
    /\ UNCHANGED <<dl_vars, build_vars, turn_vars, app_vars>>

LoadInit ==
    /\ env \in [GROQ_API_KEY : EnvValues, GITHUB_ACCESS_TOKEN : EnvValues]
    /\ load_pc = "start"
    /\ load_error = ""
    /\ models_built = FALSE
    /\ patched = FALSE

-----------------------------------------------------------------------------
(* safe_get_directory_content (agents.py lines 29-46).                     *)

Repos == {"agno-agi/agno", "o/r"}
Paths == {"workflows", ""}
Refs  == {PyNone, PyStr("main"), PyStr("no-such-branch")}

\* Raw repository entries (PyGithub ContentFile) the reference-less lookup can give.
RawPool ==
    { [name |-> "ci.yml", path |-> "workflows/ci.yml", type |-> "file", size |-> 7,
       html_url |-> "https://github.com/o/r/blob/HEAD/workflows/ci.yml"],
      [name |-> "empty", path |-> "workflows/empty", type |-> "file", size |-> 0,
       html_url |-> "https://github.com/o/r/blob/HEAD/workflows/empty"],
      [name |-> "sub", path |-> "workflows/sub", type |-> "dir", size |-> 0,
       html_url |-> "https://github.com/o/r/tree/HEAD/workflows/sub"],
      [name |-> "link", path |-> "workflows/link", type |-> "symlink", size |-> 5,
       html_url |-> "https://github.com/o/r/blob/HEAD/workflows/link"],
      [name |-> "mod", path |-> "workflows/mod", type |-> "submodule", size |-> 0,
       html_url |-> "https://github.com/o/r/tree/HEAD/workflows/mod"] }

MaxEntries == 2

RawListings == UNION { [1..n -> RawPool] : n \in 0..MaxEntries }

\* What the unpatched listing returns when it succeeds (opaque to this code).
PrimaryValues == {PyStr("[]"), PyStr("[{\"name\": \"ci.yml\"}]")}

\* An entry builder that copies the raw size of every entry.
ConvertEntry_RawSize(content) ==
    [name |-> content.name,
     path |-> content.path,
     type |-> IF content.type = "file" THEN "file" ELSE "dir",
     size |-> content.size,
     url  |-> content.html_url]

\* Lines 39-45: one result entry built from one raw entry.
ConvertEntry(content) ==
    [name |-> content.name,
     path |-> content.path,
     type |-> IF content.type = "file" THEN "file" ELSE "dir",
     size |-> IF content.type = "file" THEN content.size ELSE 0,
     url  |-> content.html_url]

\* Lines 37-46: the loop appends one entry per raw entry, in order.
RECURSIVE BuildResult(_)
BuildResult(contents) ==
    IF contents = <<>> THEN <<>>
    ELSE <<ConvertEntry(Head(contents))>> \o BuildResult(Tail(contents))

\* Line 33: the warning text.
WarningText(repo_name, path) ==
    "WARNING: Invalid ref detected in get_directory_content for " \o repo_name
        \o ", path='" \o path \o "'. Retrying without ref."

Event(ev, repo, path, ref, text) ==
    [ev |-> ev, repo |-> repo, path |-> path, ref |-> ref, text |-> text]

\* A handler written `except Exception:` would catch every class.
CaughtByFallback_CatchAll(e) == TRUE

\* Line 32: which raised classes the except clause catches.
CaughtByFallback(e) == e = "AssertionError"

NoArgs == [repo_name |-> "", path |-> "", ref |-> PyNone]

\* A caller invokes GithubTools.get_directory_content(repo_name, path, ref):
\* line 31 calls the original with the reference passed through.
DLCall(repo_name, path, ref) ==
    /\ load_pc = "loaded"
    /\ patched
    /\ dl_pc = "idle"
    /\ dl_args' = [repo_name |-> repo_name, path |-> path, ref |-> ref]
    /\ dl_events' = <<Event("original_get_directory_content", repo_name, path, ref, "")>>
    /\ dl_result' = NoResult
    /\ dl_primary' = NoResult
    /\ dl_retry' = NoResult
    /\ dl_pc' = "primary"
    /\ UNCHANGED <<load_vars, build_vars, turn_vars, app_vars>>

\* Line 31: the original returns; its value is returned as it is.
DLPrimaryReturns(v) ==
    /\ dl_pc = "primary"
    /\ dl_primary' = Returned(v)
    /\ dl_result' = Returned(v)
    /\ dl_pc' = "done"
    /\ UNCHANGED <<dl_args, dl_events, dl_retry>>
    /\ UNCHANGED <<load_vars, build_vars, turn_vars, app_vars>>

\* The handler with its print left out: the retry starts silently.
DLPrimaryRaises_NoWarning(e) ==
    /\ dl_pc = "primary"
    /\ dl_primary' = Raised(e)
    /\ IF e = "AssertionError"
       THEN /\ dl_pc' = "get_github_instance"
            /\ dl_result' = dl_result
       ELSE /\ dl_result' = Raised(e)
            /\ dl_pc' = "done"
    /\ UNCHANGED <<dl_args, dl_retry, dl_events>>
    /\ UNCHANGED <<load_vars, build_vars, turn_vars, app_vars>>

\* Lines 31-33: the original raises e. An AssertionError enters the handler,
\* which prints the warning; anything else leaves the function.
DLPrimaryRaises(e) ==
    /\ dl_pc = "primary"
    /\ dl_primary' = Raised(e)
    /\ IF CaughtByFallback(e)
       THEN /\ dl_events' = Append(dl_events,
                   Event("print", dl_args.repo_name, dl_args.path, NotSet,
                         WarningText(dl_args.repo_name, dl_args.path)))
            /\ dl_pc' = "get_github_instance"
            /\ dl_result' = dl_result
       ELSE /\ dl_result' = Raised(e)
            /\ dl_pc' = "done"
            /\ dl_events' = dl_events
    /\ UNCHANGED <<dl_args, dl_retry>>
    /\ UNCHANGED <<load_vars, build_vars, turn_vars, app_vars>>

\* Line 34: g = self._get_github_instance()
DLGetInstance(ok, e) ==
    /\ dl_pc = "get_github_instance"
    /\ dl_events' = Append(dl_events, Event("_get_github_instance", "", "", NotSet, ""))
    /\ IF ok
       THEN dl_pc' = "get_repo" /\ dl_result' = dl_result /\ dl_retry' = dl_retry
       ELSE dl_pc' = "done" /\ dl_result' = Raised(e) /\ dl_retry' = Raised(e)
    /\ UNCHANGED <<dl_args, dl_primary>>
    /\ UNCHANGED <<load_vars, build_vars, turn_vars, app_vars>>

\* Line 35: repo = g.get_repo(repo_name)
DLGetRepo(ok, e) ==
    /\ dl_pc = "get_repo"
    /\ dl_events' = Append(dl_events, Event("get_repo", dl_args.repo_name, "", NotSet, ""))
    /\ IF ok
       THEN dl_pc' = "get_contents" /\ dl_result' = dl_result /\ dl_retry' = dl_retry
       ELSE dl_pc' = "done" /\ dl_result' = Raised(e) /\ dl_retry' = Raised(e)
    /\ UNCHANGED <<dl_args, dl_primary>>
    /\ UNCHANGED <<load_vars, build_vars, turn_vars, app_vars>>

\* Lines 36-46: contents = repo.get_contents(path), no reference given, then
\* the result list is built from the raw entries and returned.
DLGetContentsReturns(contents) ==
    /\ dl_pc = "get_contents"
    /\ dl_events' = Append(dl_events,
           Event("get_contents", dl_args.repo_name, dl_args.path, NotSet, ""))
    /\ dl_retry' = Returned(PyList(contents))
    /\ dl_result' = Returned(PyList(BuildResult(contents)))
    /\ dl_pc' = "done"
    /\ UNCHANGED <<dl_args, dl_primary>>
    /\ UNCHANGED <<load_vars, build_vars, turn_vars, app_vars>>

\* Lines 36-45: the reference-less lookup (or reading an entry) raises e,
\* inside the handler: nothing catches it.
DLGetContentsRaises(e) ==
    /\ dl_pc = "get_contents"
    /\ dl_events' = Append(dl_events,
           Event("get_contents", dl_args.repo_name, dl_args.path, NotSet, ""))
    /\ dl_retry' = Raised(e)
    /\ dl_result' = Raised(e)
    /\ dl_pc' = "done"
    /\ UNCHANGED <<dl_args, dl_primary>>
    /\ UNCHANGED <<load_vars, build_vars, turn_vars, app_vars>>

\* The caller has the outcome; the next call can start.
DLFinish ==
    /\ dl_pc = "done"
    /\ dl_pc' = "idle"
    /\ dl_args' = NoArgs
    /\ dl_events' = <<>>
    /\ dl_primary' = NoResult
    /\ dl_retry' = NoResult
    /\ dl_result' = NoResult
    /\ UNCHANGED <<load_vars, build_vars, turn_vars, app_vars>>

DLInit ==
    /\ dl_pc = "idle"
    /\ dl_args = NoArgs
    /\ dl_events = <<>>
    /\ dl_primary = NoResult
    /\ dl_retry = NoResult
    /\ dl_result = NoResult

-----------------------------------------------------------------------------
(* Agent and team construction (agents.py).                                *)

\* Lines 60-77: the Remote Data Service capabilities enabled on GithubTools.
GithubCapabilities ==
    {"get_repository", "search_repositories", "get_pull_request",
     "get_pull_request_changes", "list_branches", "get_pull_request_count",
     "get_pull_requests", "get_pull_request_comments",
     "get_pull_request_with_details", "list_issues", "get_issue", "update_file",
     "get_file_content", "get_directory_content", "search_code"}

\* Line 172: the functions of ReasoningTools.
ReasoningCapabilities == {"think", "analyze"}

Tool(kind, name, functions, access_token, target) ==
    [kind |-> kind, name |-> name, functions |-> functions,
     access_token |-> access_token, target |-> target]

\* A get_github_agent that prefers the token stored in the session.
GetGithubAgent_SessionToken ==
    [name  |-> "GitHub Agent",
     model |-> "llm_groq",
     tools |-> <<Tool("GithubTools", "github", GithubCapabilities,
                      IF ss_token.type = "str" /\ ss_token.str # ""
                      THEN ss_token ELSE env.GITHUB_ACCESS_TOKEN, 0)>>]

\* Lines 50-77: the GitHub Agent, its toolkit bound to the module-level token.
GetGithubAgent ==
    [name  |-> "GitHub Agent",
     model |-> "llm_groq",
     tools |-> <<Tool("GithubTools", "github", GithubCapabilities,
                      env.GITHUB_ACCESS_TOKEN, 0)>>]

\* Lines 161-172: the Reasoning Agent as get_reasoning_agent returns it.
GetReasoningAgent ==
    [name  |-> "Reasoning Agent",
     model |-> "llm_qwen_reasoning",
     tools |-> <<Tool("ReasoningTools", "reasoning", ReasoningCapabilities, PyNone, 0)>>]

\* Lines 331-345: the Function wrapping the closure over github_agent (agent gid).
GetGithubInfoTool(gid) ==
    Tool("Function", "get_github_info", {"get_github_info"}, PyNone, gid)

\* The tool appended to github_agent.tools instead of reasoning_agent.tools.
TeamAgents_BridgeOnDataAgent(gid) ==
    << [GetGithubAgent EXCEPT !.tools = Append(@, GetGithubInfoTool(gid))],
       GetReasoningAgent >>

\* Lines 322-350: the two member agents get_router_team builds; the bridge
\* tool is appended to the Reasoning Agent's tool list only.
TeamAgents(gid) ==
    << GetGithubAgent,
       [GetReasoningAgent EXCEPT !.tools = Append(@, GetGithubInfoTool(gid))] >>

MaxTeams == 1

\* get_router_team(), lines 320-431.
GetRouterTeam ==
    /\ load_pc = "loaded"
    /\ Len(teams) < MaxTeams
    /\ LET gid == Len(agents) + 1
       IN  /\ agents' = agents \o TeamAgents(gid)
           /\ teams' = Append(teams, [name    |-> "GitHub-Reasoning Team",
                                      mode    |-> "coordinate",
                                      model   |-> "llm_groq",
                                      members |-> <<gid, gid + 1>>])
    /\ UNCHANGED <<load_vars, dl_vars, turn_vars, app_vars>>

CapabilitiesOf(a) == UNION { a.tools[i].functions : i \in 1..Len(a.tools) }

BuildInit ==
    /\ agents = <<>>
    /\ teams = <<>>

-----------------------------------------------------------------------------
(* One turn of a team: the router's selection, the member's run and the    *)
(* Delegation Bridge get_github_info (agents.py lines 324-329).            *)

Queries ==
    {"", "list the files in the src directory", "Internal request: get README.md",
     "  get the contents of README.md  "}

Sentinel == "Error retrieving information"

\* The marker written without its trailing space.
InternalQuery_NoSpace(query) == "Internal request:" \o query

\* Line 325: the f-string.
InternalQuery(query) == "Internal request: " \o query

\* What github_agent.run can return: a result object with or without a
\* content attribute; content may be text, empty text or None.
Response(has_content, content) ==
    [kind |-> "return", exc |-> "", has_content |-> has_content, content |-> content]
ResponseRaised(e) ==
    [kind |-> "raise", exc |-> e, has_content |-> FALSE, content |-> PyNone]
NoResponse ==
    [kind |-> "none", exc |-> "", has_content |-> FALSE, content |-> PyNone]

RunResponses ==
    { Response(FALSE, PyNone),
      Response(TRUE, PyStr("# README")),
      Response(TRUE, PyStr("")),
      Response(TRUE, PyNone),
      Response(TRUE, PyStr(Sentinel)) }

\* Exceptions an agent run can raise.
RunExcKinds == {"ModelProviderError", "GithubException"}

\* Lines 327-329 written as getattr(response, "content", None).
BridgeResult_NoSentinel(response) ==
    IF response.has_content THEN Returned(response.content)
    ELSE Returned(PyNone)

\* Lines 327-329 without the hasattr test.
BridgeResult_NoGuard(response) ==
    IF response.has_content THEN Returned(response.content)
    ELSE Raised("AttributeError")

\* Lines 327-329: the result extraction.
BridgeResult(response) ==
    IF response.has_content THEN Returned(response.content)
    ELSE Returned(PyStr(Sentinel))

\* Capability names the driving model may ask for during a run.
ProbedCapabilities ==
    {"get_directory_content", "get_file_content", "get_github_info", "think"}

MaxToolCalls == 2
MaxBridgeCalls == 2

Run(agent, message, by) == [agent |-> agent, message |-> message, by |-> by]

\* One entry of the turn's trace: a run of `agent` starts or ends, or `agent`
\* issues the capability call `what` or gets its outcome.
TEvent(ev, agent, what) == [ev |-> ev, agent |-> agent, what |-> what]

\* Team.run(message): the router selects one member, whose run starts.
RouterSelect(t, m, q) ==
    /\ t_pc = "idle"
    /\ m \in { teams[t].members[i] : i \in 1..Len(teams[t].members) }
    /\ t_pc' = "member"
    /\ t_team' = t
    /\ t_member' = m
    /\ t_runs' = <<Run(m, q, "router")>>
    /\ t_trace' = <<TEvent("run_start", m, "")>>
    /\ t_calls' = <<>>
    /\ nested_calls' = {}
    /\ br_count' = 0
    /\ br_query' = ""
    /\ br_response' = NoResponse
    /\ br_result' = NoResult
    /\ UNCHANGED <<load_vars, dl_vars, build_vars, app_vars>>

\* The selected member invokes one of its own capabilities other than the bridge.
MemberToolCall(c) ==
    /\ t_pc = "member"
    /\ c \in CapabilitiesOf(agents[t_member]) \ {"get_github_info"}
    /\ Len(t_calls) < MaxToolCalls
    /\ t_calls' = Append(t_calls, c)
    /\ t_trace' = t_trace \o <<TEvent("call", t_member, c), TEvent("result", t_member, c)>>
    /\ UNCHANGED <<t_pc, t_team, t_member, t_runs, nested_calls,
                   br_count, br_query, br_response, br_result>>
    /\ UNCHANGED <<load_vars, dl_vars, build_vars, app_vars>>

\* The bridge tool among the tools of agent a, as a set (empty if it has none).
BridgeToolsOf(a) ==
    { a.tools[i] : i \in { j \in 1..Len(a.tools) : a.tools[j].name = "get_github_info" } }

\* A bridge that starts the Data Agent run without waiting for it: the
\* Reasoning Agent's run goes on while the nested run is in progress.
BridgeInvoke_NonBlocking(query) ==
    /\ t_pc = "member"
    /\ br_count < MaxBridgeCalls
    /\ \E tool \in BridgeToolsOf(agents[t_member]) :
           /\ t_runs' = Append(t_runs, Run(tool.target, InternalQuery(query), "bridge"))
           /\ t_trace' = t_trace \o <<TEvent("call", t_member, "get_github_info"),
                                      TEvent("run_start", tool.target, "")>>
    /\ t_calls' = Append(t_calls, "get_github_info")
    /\ br_count' = br_count + 1
    /\ br_query' = query
    /\ br_response' = NoResponse
    /\ br_result' = NoResult
    /\ nested_calls' = {}
    /\ UNCHANGED <<t_pc, t_team, t_member>>
    /\ UNCHANGED <<load_vars, dl_vars, build_vars, app_vars>>

\* get_github_info(query), lines 325-326: the marked query is built and
\* github_agent.run(message=internal_query) is called; the caller blocks.
BridgeInvoke(query) ==
    /\ t_pc = "member"
    /\ br_count < MaxBridgeCalls
    /\ \E tool \in BridgeToolsOf(agents[t_member]) :
           /\ t_runs' = Append(t_runs, Run(tool.target, InternalQuery(query), "bridge"))
           /\ t_trace' = t_trace \o <<TEvent("call", t_member, "get_github_info"),
                                      TEvent("run_start", tool.target, "")>>
    /\ t_pc' = "nested"
    /\ t_calls' = Append(t_calls, "get_github_info")
    /\ br_count' = br_count + 1
    /\ br_query' = query
    /\ br_response' = NoResponse
    /\ br_result' = NoResult
    /\ nested_calls' = {}
    /\ UNCHANGED <<t_team, t_member>>
    /\ UNCHANGED <<load_vars, dl_vars, build_vars, app_vars>>

\* The agent the nested run belongs to.
NestedAgent == t_runs[Len(t_runs)].agent

\* The nested Data Agent run invokes one of its own capabilities.
NestedToolCall(c) ==
    /\ t_pc = "nested"
    /\ c \in CapabilitiesOf(agents[NestedAgent])
    /\ c \notin nested_calls
    /\ nested_calls' = nested_calls \cup {c}
    /\ UNCHANGED <<t_pc, t_team, t_member, t_runs, t_calls,
                   br_count, br_query, br_response, br_result, t_trace>>
    /\ UNCHANGED <<load_vars, dl_vars, build_vars, app_vars>>

\* A bridge that hands its result to the caller before the nested run ended.
NestedRunReturns_ResultFirst(response) ==
    /\ t_pc = "nested"
    /\ br_response' = response
    /\ br_result' = BridgeResult(response)
    /\ t_pc' = IF BridgeResult(response).kind = "raise" THEN "tool_failed" ELSE "member"
    /\ t_trace' = t_trace \o <<TEvent("result", t_member, "get_github_info"),
                               TEvent("run_end", NestedAgent, "")>>
    /\ UNCHANGED <<t_team, t_member, t_runs, t_calls, nested_calls, br_count, br_query>>
    /\ UNCHANGED <<load_vars, dl_vars, build_vars, app_vars>>

\* Lines 326-329: github_agent.run returns; the bridge extracts its result
\* and returns it to the Reasoning Agent's run, which goes on.
NestedRunReturns(response) ==
    /\ t_pc = "nested"
    /\ br_response' = response
    /\ br_result' = BridgeResult(response)
    /\ t_pc' = IF BridgeResult(response).kind = "raise" THEN "tool_failed" ELSE "member"
    /\ t_trace' = t_trace \o <<TEvent("run_end", NestedAgent, ""),
                               TEvent("result", t_member, "get_github_info")>>
    /\ UNCHANGED <<t_team, t_member, t_runs, t_calls, nested_calls, br_count, br_query>>
    /\ UNCHANGED <<load_vars, dl_vars, build_vars, app_vars>>

\* A bridge with a try/except around the run that answers the sentinel.
NestedRunRaises_Swallowed(e) ==
    /\ t_pc = "nested"
    /\ br_response' = ResponseRaised(e)
    /\ br_result' = Returned(PyStr(Sentinel))
    /\ t_pc' = "member"
    /\ t_trace' = t_trace \o <<TEvent("run_end", NestedAgent, ""),
                               TEvent("result", t_member, "get_github_info")>>
    /\ UNCHANGED <<t_team, t_member, t_runs, t_calls, nested_calls, br_count, br_query>>
    /\ UNCHANGED <<load_vars, dl_vars, build_vars, app_vars>>

\* Line 326: github_agent.run raises; nothing in get_github_info catches it,
\* so the same exception leaves the bridge.
NestedRunRaises(e) ==
    /\ t_pc = "nested"
    /\ br_response' = ResponseRaised(e)
    /\ br_result' = Raised(e)
    /\ t_pc' = "tool_failed"
    /\ t_trace' = t_trace \o <<TEvent("run_end", NestedAgent, ""),
                               TEvent("result", t_member, "get_github_info")>>
    /\ UNCHANGED <<t_team, t_member, t_runs, t_calls, nested_calls, br_count, br_query>>
    /\ UNCHANGED <<load_vars, dl_vars, build_vars, app_vars>>

\* The Reasoning Agent's run loop has the exception the bridge raised: it
\* either reports the failed call to its model and goes on, or the run fails.
ToolFailureHandled(surfaced) ==
    /\ t_pc = "tool_failed"
    /\ t_pc' = IF surfaced THEN "member" ELSE "failed"
    /\ UNCHANGED <<t_team, t_member, t_runs, t_calls, nested_calls,
                   br_count, br_query, br_response, br_result, t_trace>>
    /\ UNCHANGED <<load_vars, dl_vars, build_vars, app_vars>>

\* The member's run ends (with a reply, or failed) and the turn is over.
TurnEnds ==
    /\ t_pc \in {"member", "failed"}
    /\ t_pc' = "idle"
    /\ t_team' = 0
    /\ t_member' = 0
    /\ t_runs' = <<>>
    /\ t_calls' = <<>>
    /\ nested_calls' = {}
    /\ br_count' = 0
    /\ br_query' = ""
    /\ br_response' = NoResponse
    /\ br_result' = NoResult
    /\ t_trace' = <<>>
    /\ UNCHANGED <<load_vars, dl_vars, build_vars, app_vars>>

TurnInit ==
    /\ t_pc = "idle"
    /\ t_team = 0
    /\ t_member = 0
    /\ t_runs = <<>>
    /\ t_calls = <<>>
    /\ nested_calls = {}
    /\ br_count = 0
    /\ br_query = ""
    /\ br_response = NoResponse
    /\ br_result = NoResult
    /\ t_trace = <<>>

-----------------------------------------------------------------------------
(* The chat front end: main() of app_groq.py with add_message,             *)
(* sidebar_widget and restart_agent of utils.py. One script run executes   *)
(* main() from the top; st.rerun() abandons the run and starts the next.   *)

AgentRef(id) == [state |-> "agent", id |-> id]
AgentNone    == [state |-> "none", id |-> 0]
AgentAbsent  == [state |-> "absent", id |-> 0]

Message(role, content, tool_calls) ==
    [role |-> role, content |-> content, tool_calls |-> tool_calls]

MessageList(l) == [present |-> TRUE, list |-> l]
NoMessageList  == [present |-> FALSE, list |-> <<>>]

\* An add_message that puts the new record in front of the others.
AddMessage_Prepend(messages, role, content, tool_calls) ==
    LET base == IF messages.present THEN messages.list ELSE <<>>
    IN  MessageList(<<Message(role, content, tool_calls)>> \o base)

\* utils.py lines 8-18: a missing (or non-list) history becomes [] first,
\* then the record is appended at the end.
AddMessage(messages, role, content, tool_calls) ==
    LET base == IF messages.present THEN messages.list ELSE <<>>
    IN  MessageList(Append(base, Message(role, content, tool_calls)))

NoInput == [kind |-> "none", text |-> ""]

\* The trigger of a script run that st.rerun() started; `cause` names the
\* branch of sidebar_widget that called it.
Rerun(cause) == [kind |-> "rerun", text |-> cause]
NoRun   == Run(0, "", "none")
NoResponseText == [text |-> "", chunks |-> 0]

\* utils.py lines 55-67: the sample-query buttons.
SampleQueries ==
    {"Summarize 'agno-agi/agno' repo",
     "Analyze 'pytorch/pytorch' repository structure",
     "Search for 'machine learning' related code in 'tensorflow/tensorflow'",
     "Summarize recent PRs in 'facebook/react'",
     "List CI/CD workflows in 'kubernetes/kubernetes'",
     "Analyze commit history of 'torvalds/linux'"}

Prompts == {"What does this repo do?"}

\* What a user can type into the token field.
TokenInputs == {"", "tok", "ghp_other"}

MaxMessages == 4
MaxAgents == 3
MaxChunks == 2

\* A script run can start: the import succeeded and no run is in progress.
CanInteract ==
    /\ load_pc = "loaded"
    /\ app_pc = "waiting"

StartScript(i) ==
    /\ app_pc' = "ensure_agent"
    /\ inp' = i
    /\ UNCHANGED <<ss_agent, ss_messages, ss_token, ss_session_id,
                   main_agent, app_run, app_response>>
    /\ UNCHANGED <<load_vars, dl_vars, build_vars, turn_vars>>

\* The page is opened or refreshed within the session: a run with no trigger.
UserOpensPage ==
    /\ CanInteract
    /\ StartScript(NoInput)
    /\ UNCHANGED w_token

\* The user edits the token field of the sidebar (rendered at least once).
UserEditsToken(tok) ==
    /\ CanInteract
    /\ w_token # NotSet
    /\ w_token # PyStr(tok)
    /\ w_token' = PyStr(tok)
    /\ StartScript(NoInput)

\* The user submits a prompt in st.chat_input.
UserSubmitsPrompt(prompt) ==
    /\ CanInteract
    /\ ss_messages.present
    /\ Len(ss_messages.list) + 2 <= MaxMessages
    /\ StartScript([kind |-> "chat", text |-> prompt])
    /\ UNCHANGED w_token

\* The user clicks one of the sample-query buttons.
UserClicksSample(query) ==
    /\ CanInteract
    /\ ss_messages.present
    /\ Len(ss_messages.list) + 2 <= MaxMessages
    /\ StartScript([kind |-> "sample", text |-> query])
    /\ UNCHANGED w_token

\* The user clicks "New Chat".
UserClicksNewChat ==
    /\ CanInteract
    /\ ss_messages.present
    /\ StartScript([kind |-> "new_chat", text |-> ""])
    /\ UNCHANGED w_token

\* app_groq.py lines 31-45: a missing or None agent is constructed, stored,
\* and the history reset; the token is read from the environment.
\* (MaxAgents caps the number of agents a behaviour constructs.)
EnsureAgent ==
    /\ app_pc = "ensure_agent"
    /\ IF ss_agent.state # "agent"
       THEN /\ Len(agents) < MaxAgents
            /\ agents' = Append(agents, GetGithubAgent)
            /\ ss_agent' = AgentRef(Len(agents) + 1)
            /\ ss_messages' = MessageList(<<>>)
            /\ IF Falsy(env.GITHUB_ACCESS_TOKEN)
               THEN /\ app_pc' = "waiting"
                    /\ inp' = NoInput
                    /\ main_agent' = 0
                    /\ ss_token' = ss_token
               ELSE /\ app_pc' = "load_session"
                    /\ inp' = inp
                    /\ main_agent' = Len(agents) + 1
                    /\ ss_token' = env.GITHUB_ACCESS_TOKEN
       ELSE /\ main_agent' = ss_agent.id
            /\ app_pc' = "load_session"
            /\ UNCHANGED <<agents, ss_agent, ss_messages, ss_token, inp>>
    /\ UNCHANGED <<teams, w_token, ss_session_id, app_run, app_response>>
    /\ UNCHANGED <<load_vars, dl_vars, turn_vars>>

\* Lines 47-51: github_agent.load_session() gives the session id, or raises
\* and the run ends with a warning.
LoadSession(ok) ==
    /\ app_pc = "load_session"
    /\ IF ok
       THEN /\ ss_session_id' = "session"
            /\ app_pc' = "hydrate"
            /\ UNCHANGED <<inp, main_agent>>
       ELSE /\ ss_session_id' = ss_session_id
            /\ app_pc' = "waiting"
            /\ inp' = NoInput
            /\ main_agent' = 0
    /\ UNCHANGED <<w_token, ss_agent, ss_messages, ss_token, app_run, app_response>>
    /\ UNCHANGED <<load_vars, dl_vars, build_vars, turn_vars>>

\* Runs the agent's memory can hold for the session.
StoredMessage(role, content) == [role |-> role, content |-> content, tool_calls |-> "None"]
StoredRunSets ==
    { <<>>,
      << [messages |-> << StoredMessage("system", PyStr("You are an expert")),
                          StoredMessage("user", PyStr("stored question")),
                          StoredMessage("assistant", PyNone),
                          StoredMessage("assistant", PyStr("stored answer")) >>] >> }

\* Lines 59-61: the messages of one run that are shown.
RECURSIVE AddRunMessages(_, _)
AddRunMessages(messages, msgs) ==
    IF msgs = <<>> THEN messages
    ELSE LET msg == Head(msgs)
         IN  AddRunMessages(
                 IF msg.role \in {"user", "assistant"} /\ msg.content.type # "NoneType"
                 THEN AddMessage(messages, msg.role, msg.content.str, msg.tool_calls)
                 ELSE messages,
                 Tail(msgs))

\* Lines 57-61: the history rebuilt from the stored runs.
RECURSIVE AddRuns(_, _)
AddRuns(messages, agent_runs) ==
    IF agent_runs = <<>> THEN messages
    ELSE AddRuns(AddRunMessages(messages, Head(agent_runs).messages), Tail(agent_runs))

\* Lines 53-63: with a memory and an empty (or missing) history, the history
\* is reset and refilled from the stored runs.
Hydrate(has_memory, agent_runs) ==
    /\ app_pc = "hydrate"
    /\ IF has_memory /\ (~ss_messages.present \/ ss_messages.list = <<>>)
       THEN ss_messages' = AddRuns(MessageList(<<>>), agent_runs)
       ELSE ss_messages' = ss_messages
    /\ app_pc' = "sidebar"
    /\ UNCHANGED <<inp, w_token, ss_agent, ss_token, ss_session_id,
                   main_agent, app_run, app_response>>
    /\ UNCHANGED <<load_vars, dl_vars, build_vars, turn_vars>>

\* utils.py lines 28-34: the value of the text input: what the user typed,
\* or on the first rendering the stored token (or "").
TokenInputValue ==
    IF w_token # NotSet THEN w_token.str
    ELSE IF ss_token.type = "str" THEN ss_token.str ELSE ""

\* utils.py lines 41-44: the token input differs from the stored token.
TokenChanged ==
    LET token_input == TokenInputValue
        current     == IF ss_token = NotSet THEN PyNone ELSE ss_token
    IN  /\ PyStr(token_input) # current
        /\ (token_input # "" \/ current.type # "NoneType")

\* sidebar_widget(), utils.py lines 21-72, with restart_agent (lines 142-149).
Sidebar ==
    /\ app_pc = "sidebar"
    /\ w_token' = PyStr(TokenInputValue)
    /\ IF TokenChanged
       THEN \* lines 45-50: store the token, drop the agent, rerun
            /\ ss_token' = IF TokenInputValue # "" THEN PyStr(TokenInputValue) ELSE PyNone
            /\ ss_agent' = AgentNone
            /\ ss_messages' = ss_messages
            /\ app_pc' = "ensure_agent"
            /\ inp' = Rerun("token")
            /\ main_agent' = 0
       ELSE IF inp.kind = "sample"
       THEN \* lines 55-67: a sample query is added as a user message
            /\ ss_messages' = AddMessage(ss_messages, "user", inp.text, "None")
            /\ app_pc' = "chat_input"
            /\ UNCHANGED <<ss_token, ss_agent, inp, main_agent>>
       ELSE IF inp.kind = "new_chat"
       THEN \* lines 70-72 and 142-149: restart_agent()
            /\ ss_messages' = MessageList(<<>>)
            /\ ss_agent' = AgentNone
            /\ ss_token' = ss_token
            /\ app_pc' = "ensure_agent"
            /\ inp' = Rerun("new_chat")
            /\ main_agent' = 0
       ELSE /\ app_pc' = "chat_input"
            /\ UNCHANGED <<ss_token, ss_agent, ss_messages, inp, main_agent>>
    /\ UNCHANGED <<ss_session_id, app_run, app_response>>
    /\ UNCHANGED <<load_vars, dl_vars, build_vars, turn_vars>>

\* app_groq.py lines 67-68: a submitted prompt is added as a user message.
ChatInput ==
    /\ app_pc = "chat_input"
    /\ IF inp.kind = "chat" /\ inp.text # ""
       THEN ss_messages' = AddMessage(ss_messages, "user", inp.text, "None")
       ELSE ss_messages' = ss_messages
    /\ app_pc' = "respond"
    /\ UNCHANGED <<inp, w_token, ss_agent, ss_token, ss_session_id,
                   main_agent, app_run, app_response>>
    /\ UNCHANGED <<load_vars, dl_vars, build_vars, turn_vars>>

\* Lines 79-88: when the last message is a user message, its content is
\* given to github_agent.run; otherwise the script run ends.
Respond ==
    /\ app_pc = "respond"
    /\ LET messages     == ss_messages.list
           last_is_user == messages # <<>> /\ messages[Len(messages)].role = "user"
       IN  IF last_is_user
           THEN /\ app_run' = Run(main_agent, messages[Len(messages)].content, "frontend")
                /\ app_response' = NoResponseText
                /\ app_pc' = "agent_running"
                /\ UNCHANGED <<inp, main_agent>>
           ELSE /\ app_pc' = "waiting"
                /\ inp' = NoInput
                /\ main_agent' = 0
                /\ UNCHANGED <<app_run, app_response>>
    /\ UNCHANGED <<w_token, ss_agent, ss_messages, ss_token, ss_session_id>>
    /\ UNCHANGED <<load_vars, dl_vars, build_vars, turn_vars>>

\* Fragments the streamed run can yield.
Chunks ==
    { [event |-> "RunResponse", content |-> PyStr("The repo ")],
      [event |-> "RunResponse", content |-> PyNone],
      [event |-> "ToolCallStarted", content |-> PyStr("get_repository")] }

\* Lines 89-94: one fragment of the streamed run is consumed.
AgentChunk(chunk) ==
    /\ app_pc = "agent_running"
    /\ app_response.chunks < MaxChunks
    /\ app_response' =
           [text   |-> IF chunk.event = "RunResponse" /\ chunk.content.type # "NoneType"
                       THEN app_response.text \o chunk.content.str
                       ELSE app_response.text,
            chunks |-> app_response.chunks + 1]
    /\ UNCHANGED <<app_pc, inp, session_vars, main_agent, app_run>>
    /\ UNCHANGED <<load_vars, dl_vars, build_vars, turn_vars>>

\* Lines 90-94: the fragment makes the loop call a Streamlit element
\* (display_tool_calls for a fragment with tools, resp_container.markdown
\* for a fragment with content).
ChunkRenders(chunk) ==
    \/ chunk.event = "ToolCallStarted"
    \/ chunk.event = "RunResponse" /\ chunk.content.type # "NoneType"

\* utils.py lines 55-56: the first sample button, standing for the six.
ClickedSamples == {"Summarize 'agno-agi/agno' repo"}

\* What the user can do in the page while the answer is streaming.
Interruptions ==
    {NoInput, [kind |-> "new_chat", text |-> ""]}
        \cup { [kind |-> "chat", text |-> p] : p \in Prompts }
        \cup { [kind |-> "sample", text |-> q] : q \in ClickedSamples }

\* Lines 89-94 under Streamlit's execution model: the user interacted with
\* the page (i) while the agent was streaming, so the element call of the
\* next rendered fragment stops this script run with the framework's rerun
\* signal. That signal is not an Exception, so the except clause of line 97
\* does not handle it: nothing is appended, the locals are gone, and the
\* script starts again from the top with i as its trigger.
ScriptInterrupted(chunk, i) ==
    /\ app_pc = "agent_running"
    /\ app_response.chunks < MaxChunks
    /\ ChunkRenders(chunk)
    /\ i.kind \in {"chat", "sample"} => Len(ss_messages.list) + 2 <= MaxMessages
    /\ app_pc' = "ensure_agent"
    /\ inp' = i
    /\ main_agent' = 0
    /\ app_run' = NoRun
    /\ app_response' = NoResponseText
    /\ UNCHANGED <<w_token, ss_agent, ss_messages, ss_token, ss_session_id>>
    /\ UNCHANGED <<load_vars, dl_vars, build_vars, turn_vars>>

\* The same, the interaction being an edit of the sidebar's token field.
ScriptInterruptedByTokenEdit(chunk, tok) ==
    /\ app_pc = "agent_running"
    /\ app_response.chunks < MaxChunks
    /\ ChunkRenders(chunk)
    /\ w_token # PyStr(tok)
    /\ w_token' = PyStr(tok)
    /\ app_pc' = "ensure_agent"
    /\ inp' = NoInput
    /\ main_agent' = 0
    /\ app_run' = NoRun
    /\ app_response' = NoResponseText
    /\ UNCHANGED <<ss_agent, ss_messages, ss_token, ss_session_id>>
    /\ UNCHANGED <<load_vars, dl_vars, build_vars, turn_vars>>

\* Line 96: the stream ends; the accumulated response is added.
AgentRunCompletes(tools) ==
    /\ app_pc = "agent_running"
    /\ ss_messages' = AddMessage(ss_messages, "assistant", app_response.text, tools)
    /\ app_pc' = "waiting"
    /\ inp' = NoInput
    /\ main_agent' = 0
    /\ app_run' = NoRun
    /\ app_response' = NoResponseText
    /\ UNCHANGED <<w_token, ss_agent, ss_token, ss_session_id>>
    /\ UNCHANGED <<load_vars, dl_vars, build_vars, turn_vars>>

ErrorTexts == {"", "rate limit exceeded"}

\* Line 98: the text of the message the except block builds.
ErrorMessage(text) == "Sorry, I encountered an error: " \o text

\* An except block that first salvages the partial response as a message.
AgentRunRaises_KeepsPartial(text) ==
    /\ app_pc = "agent_running"
    /\ ss_messages' =
           AddMessage(IF app_response.text # ""
                      THEN AddMessage(ss_messages, "assistant", app_response.text, "None")
                      ELSE ss_messages,
                      "assistant", ErrorMessage(text), "None")
    /\ app_pc' = "waiting"
    /\ inp' = NoInput
    /\ main_agent' = 0
    /\ app_run' = NoRun
    /\ app_response' = NoResponseText
    /\ UNCHANGED <<w_token, ss_agent, ss_token, ss_session_id>>
    /\ UNCHANGED <<load_vars, dl_vars, build_vars, turn_vars>>

\* Lines 97-101: the run (or the stream) raises e; the error text is added.
AgentRunRaises(text) ==
    /\ app_pc = "agent_running"
    /\ ss_messages' = AddMessage(ss_messages, "assistant", ErrorMessage(text), "None")
    /\ app_pc' = "waiting"
    /\ inp' = NoInput
    /\ main_agent' = 0
    /\ app_run' = NoRun
    /\ app_response' = NoResponseText
    /\ UNCHANGED <<w_token, ss_agent, ss_token, ss_session_id>>
    /\ UNCHANGED <<load_vars, dl_vars, build_vars, turn_vars>>

AppInit ==
    /\ app_pc = "waiting"
    /\ inp = NoInput
    /\ w_token = NotSet
    /\ ss_agent = AgentAbsent
    /\ ss_messages = NoMessageList
    /\ ss_token = NotSet
    /\ ss_session_id = ""
    /\ main_agent = 0
    /\ app_run = NoRun
    /\ app_response = NoResponseText

vars == <<load_vars, dl_vars, build_vars, turn_vars, app_vars>>

LoadNext ==
    \/ ImportLlmProviders
    \/ ValidateCredentials
    \/ InstallPatch

ListingNext ==
    \/ LoadNext
    \/ \E r \in Repos, p \in Paths, ref \in Refs : DLCall(r, p, ref)
    \/ \E v \in PrimaryValues : DLPrimaryReturns(v)
    \/ \E e \in ExcKinds : DLPrimaryRaises(e)
    \/ \E ok \in BOOLEAN, e \in ExcKinds : DLGetInstance(ok, e)
    \/ \E ok \in BOOLEAN, e \in ExcKinds : DLGetRepo(ok, e)
    \/ \E c \in RawListings : DLGetContentsReturns(c)
    \/ \E e \in ExcKinds : DLGetContentsRaises(e)
    \/ DLFinish

TeamNext ==
    \/ LoadNext
    \/ GetRouterTeam
    \/ \E t \in 1..Len(teams), m \in 1..Len(agents), q \in Queries : RouterSelect(t, m, q)
    \/ \E c \in ProbedCapabilities : MemberToolCall(c)
    \/ \E q \in Queries : BridgeInvoke(q)
    \/ \E c \in ProbedCapabilities : NestedToolCall(c)
    \/ \E r \in RunResponses : NestedRunReturns(r)
    \/ \E e \in RunExcKinds : NestedRunRaises(e)
    \/ \E surfaced \in BOOLEAN : ToolFailureHandled(surfaced)
    \/ TurnEnds

AppNext ==
    \/ LoadNext
    \/ UserOpensPage
    \/ \E tok \in TokenInputs : UserEditsToken(tok)
    \/ \E prompt \in Prompts : UserSubmitsPrompt(prompt)
    \/ \E query \in SampleQueries : UserClicksSample(query)
    \/ UserClicksNewChat
    \/ EnsureAgent
    \/ \E ok \in BOOLEAN : LoadSession(ok)
    \/ \E has_memory \in BOOLEAN, agent_runs \in StoredRunSets : Hydrate(has_memory, agent_runs)
    \/ Sidebar
    \/ ChatInput
    \/ Respond
    \/ \E chunk \in Chunks : AgentChunk(chunk)
    \/ \E tools \in {"None", "tools"} : AgentRunCompletes(tools)
    \/ \E text \in ErrorTexts : AgentRunRaises(text)

\* The front end with a user who also interacts while an answer is streaming.
InterruptNext ==
    \/ LoadNext
    \/ UserOpensPage
    \/ \E tok \in TokenInputs : UserEditsToken(tok)
    \/ \E prompt \in Prompts : UserSubmitsPrompt(prompt)
    \/ \E query \in ClickedSamples : UserClicksSample(query)
    \/ UserClicksNewChat
    \/ EnsureAgent
    \/ \E ok \in BOOLEAN : LoadSession(ok)
    \/ \E has_memory \in BOOLEAN, agent_runs \in StoredRunSets : Hydrate(has_memory, agent_runs)
    \/ Sidebar
    \/ ChatInput
    \/ Respond
    \/ \E chunk \in Chunks : AgentChunk(chunk)
    \/ \E chunk \in Chunks, i \in Interruptions : ScriptInterrupted(chunk, i)
    \/ \E chunk \in Chunks, tok \in TokenInputs : ScriptInterruptedByTokenEdit(chunk, tok)
    \/ \E tools \in {"None", "tools"} : AgentRunCompletes(tools)
    \/ \E text \in ErrorTexts : AgentRunRaises(text)

Init == LoadInit /\ DLInit /\ BuildInit /\ TurnInit /\ AppInit

\* The directory-listing capability, called by any Data Agent run.
SpecListing == Init /\ [][ListingNext]_vars

\* A team built by get_router_team and the turns it runs.
SpecTeam == Init /\ [][TeamNext]_vars

\* The application: the import of agents.py, then the script runs of main().
Spec == Init /\ [][AppNext]_vars

\* The application when script runs can be interrupted by the user.
SpecInterrupt == Init /\ [][InterruptNext]_vars

-----------------------------------------------------------------------------
(* Directory-listing fallback: properties.                                 *)

EventsOf(kind) == { i \in 1..Len(dl_events) : dl_events[i].ev = kind }

RetryEvents == {"_get_github_instance", "get_repo", "get_contents"}

\* The call left the primary path: the handler printed or retried.
FallbackTaken ==
    \E i \in 1..Len(dl_events) : dl_events[i].ev \in RetryEvents \cup {"print"}

PrimaryAnswered == dl_primary.kind # "none"

EntryFields == {"name", "path", "type", "size", "url"}

\* C1: the fallback path is taken if and only if the primary call raised
\* AssertionError; the lookup it then issues carries no reference, and the
\* entries it returns have exactly the fields name, path, type, size, url.
\* Any other failure of the primary call reaches the caller as it was
\* raised, with no retry and no warning.
C1_FallbackIffAssertionError ==
    PrimaryAnswered =>
        /\ FallbackTaken <=> dl_primary = Raised("AssertionError")
        /\ \A i \in EventsOf("get_contents") :
               /\ dl_events[i].ref = NotSet
               /\ dl_events[i].repo = dl_args.repo_name
               /\ dl_events[i].path = dl_args.path
        /\ (dl_pc = "done" /\ FallbackTaken /\ dl_result.kind = "return") =>
               /\ dl_result.value.type = "list"
               /\ \A i \in 1..Len(dl_result.value.list) :
                      DOMAIN dl_result.value.list[i] = EntryFields
        /\ (dl_primary.kind = "raise" /\ dl_primary.exc # "AssertionError") =>
               /\ dl_pc = "done"
               /\ dl_result = dl_primary
               /\ Len(dl_events) = 1

\* A completed fallback that returned a non-empty listing.
C1_Witness ==
    /\ dl_pc = "done"
    /\ dl_primary = Raised("AssertionError")
    /\ dl_result.kind = "return"
    /\ Len(dl_result.value.list) = 2
    /\ dl_args.ref = PyStr("no-such-branch")

\* C8: when the primary call raises the recoverable failure the trace is the
\* primary call with the reference, then one warning naming the repository
\* and the path, then one reference-less retry: the warning comes before the
\* retry, no step of the retry happens twice, and a failure of the retry is
\* what the caller gets. When the primary call succeeds there is no warning
\* and no retry.
C8_WarnOnceThenRetryOnce ==
    /\ dl_pc # "idle" =>
           /\ dl_events[1] = Event("original_get_directory_content",
                                   dl_args.repo_name, dl_args.path, dl_args.ref, "")
           /\ EventsOf("original_get_directory_content") = {1}
    /\ dl_primary = Raised("AssertionError") =>
           /\ EventsOf("print") = {2}
           /\ dl_events[2].repo = dl_args.repo_name
           /\ dl_events[2].path = dl_args.path
           /\ dl_events[2].text = WarningText(dl_args.repo_name, dl_args.path)
           /\ \A k \in RetryEvents : Cardinality(EventsOf(k)) <= 1
           /\ \A i \in 1..Len(dl_events) : dl_events[i].ev \in RetryEvents => i > 2
           /\ dl_pc = "done" =>
                  /\ Cardinality(EventsOf("_get_github_instance")) = 1
                  /\ dl_retry.kind # "none"
                  /\ dl_retry.kind = "raise" => dl_result = dl_retry
                  /\ dl_retry.kind = "return" =>
                         /\ Cardinality(EventsOf("get_contents")) = 1
                         /\ dl_result.kind = "return"
    /\ dl_primary.kind = "return" =>
           /\ Len(dl_events) = 1
           /\ dl_result = dl_primary
           /\ dl_retry.kind = "none"

\* The retry itself failed with an assertion-style error, after the warning.
C8_Witness ==
    /\ dl_pc = "done"
    /\ dl_primary = Raised("AssertionError")
    /\ dl_retry = Raised("AssertionError")
    /\ Len(dl_events) = 5
    /\ dl_result = Raised("AssertionError")

-----------------------------------------------------------------------------
(* Delegation Bridge and team construction: properties.                    *)

BridgeRuns == { i \in 1..Len(t_runs) : t_runs[i].by = "bridge" }

\* C2: every invocation of get_github_info(q) starts exactly one Data Agent
\* run, and the message of that run is the literal "Internal request: "
\* followed by q unchanged, for every q (the empty string and a q that
\* already starts with the marker included).
C2_BridgeForwardsMarkedQuery ==
    /\ Cardinality(BridgeRuns) = br_count
    /\ br_count > 0 =>
           LET run == t_runs[Len(t_runs)]
           IN  /\ run.by = "bridge"
               /\ run.message = "Internal request: " \o br_query
               /\ Len(run.message) = 18 + Len(br_query)
               /\ run.agent = teams[t_team].members[1]
               /\ agents[run.agent].name = "GitHub Agent"

\* The second invocation of a turn, with a query that already has the marker.
C2_Witness ==
    /\ t_pc = "nested"
    /\ br_count = 2
    /\ br_query = "Internal request: get README.md"
    /\ t_runs[Len(t_runs)].message = "Internal request: Internal request: get README.md"

\* C3: when the nested run returns a result without a content attribute the
\* bridge returns exactly "Error retrieving information" and does not raise.
C3_NoContentGivesSentinel ==
    (br_response.kind = "return" /\ ~br_response.has_content) =>
        /\ br_result.kind = "return"
        /\ br_result.value = PyStr("Error retrieving information")
        /\ t_pc # "tool_failed"

\* A result without content came back and the sentinel was returned.
C3_Witness ==
    /\ br_response = Response(FALSE, PyNone)
    /\ br_result.kind = "return"
    /\ br_result.value.str = "Error retrieving information"

\* C4: an exception raised inside the nested run is not caught by the
\* bridge: the bridge returns no value and the same exception reaches its caller.
C4_NestedExceptionPropagates ==
    br_response.kind = "raise" =>
        /\ br_result.kind = "raise"
        /\ br_result.exc = br_response.exc
        /\ br_result.value = PyNone
        /\ t_pc \in {"tool_failed", "member", "failed"}

\* The nested run raised and the caller's run loop holds the exception.
C4_Witness ==
    /\ t_pc = "tool_failed"
    /\ br_response = ResponseRaised("GithubException")
    /\ br_result = Raised("GithubException")

\* C5 as stated: either kind of delegation failure, the nested run raising
\* or returning a result without content, makes the bridge return the
\* sentinel, and the member's run goes on.
C5_EveryFailureGivesSentinel ==
    (br_response.kind = "raise"
        \/ (br_response.kind = "return" /\ ~br_response.has_content)) =>
        /\ br_result = Returned(PyStr("Error retrieving information"))
        /\ t_pc \in {"member", "idle"}

\* C5 amended: of the two kinds of failure only a result without a content
\* attribute becomes the sentinel, and then the bridge returns normally and
\* the member's run goes on; when the nested run raises, the bridge returns
\* nothing, the sentinel included, and the exception leaves it. The sentinel
\* is returned in no other case than a missing content attribute or a
\* content that is that very text.
C5_OnlyMissingContentGivesSentinel ==
    /\ (br_response.kind = "return" /\ ~br_response.has_content) =>
           /\ br_result = Returned(PyStr("Error retrieving information"))
           /\ t_pc = "member"
    /\ br_response.kind = "raise" =>
           /\ br_result.kind = "raise"
           /\ br_result.exc = br_response.exc
           /\ br_result.value.str # "Error retrieving information"
    /\ br_result = Returned(PyStr("Error retrieving information")) =>
           /\ br_response.kind = "return"
           /\ \/ ~br_response.has_content
              \/ br_response.content = PyStr("Error retrieving information")

\* The nested run raised and the member's run then failed.
C5_Witness ==
    /\ t_pc = "failed"
    /\ br_response.kind = "raise"
    /\ br_result.kind = "raise"

\* C9 as stated: whatever the nested run returns, the bridge returns text:
\* the content itself when it is text, the sentinel otherwise.
C9_BridgeAlwaysReturnsText ==
    br_response.kind = "return" =>
        /\ br_result.kind = "return"
        /\ br_result.value.type = "str"
        /\ IF br_response.has_content /\ br_response.content.type = "str"
           THEN br_result.value = br_response.content
           ELSE br_result.value = PyStr("Error retrieving information")

HasBridge(a) == "get_github_info" \in CapabilitiesOf(a)

\* C10: once a team is built, the bridge capability is in the capability set
\* of the team's Reasoning Agent and of no other agent, the Remote Data
\* Service capabilities are in the Data Agent's set and not in the Reasoning
\* Agent's, and a Data Agent run started by the bridge never invokes the bridge.
C10_BridgeOnlyOnReasoningAgent ==
    /\ \A t \in 1..Len(teams) :
           LET g == agents[teams[t].members[1]]
               r == agents[teams[t].members[2]]
           IN  /\ g.name = "GitHub Agent"
               /\ r.name = "Reasoning Agent"
               /\ HasBridge(r)
               /\ \A tool \in BridgeToolsOf(r) : tool.target = teams[t].members[1]
               /\ GithubCapabilities \subseteq CapabilitiesOf(g)
               /\ CapabilitiesOf(r) \cap GithubCapabilities = {}
    /\ \A i \in 1..Len(agents) :
           /\ HasBridge(agents[i]) => agents[i].name = "Reasoning Agent"
           /\ agents[i].name = "Reasoning Agent" =>
                  \A j \in 1..Len(agents[i].tools) : agents[i].tools[j].kind # "GithubTools"
    /\ "get_github_info" \notin nested_calls
    /\ t_pc = "nested" => ~HasBridge(agents[NestedAgent])

\* A nested Data Agent run that used two of its Remote Data Service capabilities.
C10_Witness ==
    /\ teams # <<>>
    /\ t_pc = "nested"
    /\ nested_calls = {"get_directory_content", "get_file_content"}

\* Nested runs started / ended among the first k entries of the turn's trace
\* (entry 1 is the start of the selected member's own run).
NestedStarts(k) == Cardinality({ i \in 2..k : t_trace[i].ev = "run_start" })
NestedEnds(k)   == Cardinality({ i \in 2..k : t_trace[i].ev = "run_end" })

\* C11 as stated: within one turn at most one nested Data Agent run is
\* started through the Delegation Bridge.
C11_AtMostOneNestedRunPerTurn == Cardinality(BridgeRuns) <= 1

\* C11, amended: within one turn every bridge invocation starts one nested
\* Data Agent run and nothing limits their number; the nested runs happen one
\* after another (at most one is in progress at any point of the turn) and
\* the agent of a nested run has no bridge with which to start a further one.
C11_NestedRunsOneAtATime ==
    /\ \A k \in 0..Len(t_trace) : NestedStarts(k) - NestedEnds(k) \in {0, 1}
    /\ NestedStarts(Len(t_trace)) = br_count
    /\ Cardinality(BridgeRuns) = br_count
    /\ \A i \in BridgeRuns : ~HasBridge(agents[t_runs[i].agent])

C11_Witness ==
    /\ Cardinality(BridgeRuns) = 2
    /\ t_pc = "nested"
    /\ NestedEnds(Len(t_trace)) = 1

\* C12: the bridge blocks its caller. In the turn's trace a bridge call is
\* followed by the start of the nested run, then by the end of that run, and
\* only then by the call's outcome; the caller has no entry in between. Every
\* other capability call is resolved before the next one is issued, so calls
\* resolve in the order issued and nothing overlaps. While the nested run is
\* in progress the bridge has no result yet.
C12_BridgeBlocksCaller ==
    /\ \A i \in 1..Len(t_trace) :
           t_trace[i].ev = "call" =>
               LET e == t_trace[i]
                   n == Len(t_trace)
               IN  IF e.what = "get_github_info"
                   THEN /\ i + 1 <= n
                        /\ t_trace[i + 1].ev = "run_start"
                        /\ t_trace[i + 1].agent # e.agent
                        /\ (i + 1 = n) => t_pc = "nested"
                        /\ (i + 1 < n) =>
                               /\ i + 3 <= n
                               /\ t_trace[i + 2] = TEvent("run_end", t_trace[i + 1].agent, "")
                               /\ t_trace[i + 3] = TEvent("result", e.agent, "get_github_info")
                   ELSE /\ i + 1 <= n
                        /\ t_trace[i + 1] = TEvent("result", e.agent, e.what)
    /\ t_pc = "nested" =>
           /\ t_trace[Len(t_trace)].ev = "run_start"
           /\ br_response = NoResponse
           /\ br_result = NoResult
    /\ br_result # NoResult =>
           /\ br_response # NoResponse
           /\ t_trace[Len(t_trace)] = TEvent("result", t_member, "get_github_info")
              \/ t_trace[Len(t_trace)].what # "get_github_info"

C12_Witness ==
    /\ t_calls = <<"get_github_info", "think">>
    /\ br_result.kind = "return"
    /\ Len(t_trace) = 7

\* C19: when the fallback returns, its result has one entry per raw entry
\* of the reference-less lookup, in the same order; name, path and url are
\* those of the raw entry, type is "file" exactly for raw type "file" and
\* "dir" for every other raw type, and size is the raw size for a file and 0
\* for everything else.
C19_FallbackConvertsEntriesInOrder ==
    (dl_pc = "done" /\ FallbackTaken /\ dl_result.kind = "return") =>
        LET raw == dl_retry.value.list
            res == dl_result.value.list
        IN  /\ dl_retry.kind = "return"
            /\ Len(res) = Len(raw)
            /\ \A i \in 1..Len(raw) :
                   /\ res[i].name = raw[i].name
                   /\ res[i].path = raw[i].path
                   /\ res[i].url = raw[i].html_url
                   /\ res[i].type \in {"file", "dir"}
                   /\ res[i].type = "file" <=> raw[i].type = "file"
                   /\ raw[i].type = "file" => res[i].size = raw[i].size
                   /\ raw[i].type # "file" => res[i].size = 0

\* A returned listing of a symlink with a raw size and a file, in that order.
C19_Witness ==
    /\ dl_pc = "done"
    /\ FallbackTaken
    /\ dl_result.kind = "return"
    /\ Len(dl_retry.value.list) = 2
    /\ dl_retry.value.list[1].type = "symlink"
    /\ dl_retry.value.list[1].size = 5
    /\ dl_result.value.list[1].size = 0
    /\ dl_result.value.list[2].name = "ci.yml"

-----------------------------------------------------------------------------
(* Start-up and the chat front end: properties.                            *)

\* C6 as stated: the front end hands every user message to the Router and
\* never starts a run of a member agent itself.
C6_EveryTurnThroughRouter ==
    app_pc = "agent_running" =>
        ~(/\ app_run.by = "frontend"
          /\ app_run.agent \in 1..Len(agents)
          /\ agents[app_run.agent].name \in {"GitHub Agent", "Reasoning Agent"})

MissingCredential == Falsy(env.GROQ_API_KEY) \/ Falsy(env.GITHUB_ACCESS_TOKEN)

\* C7: with GROQ_API_KEY or GITHUB_ACCESS_TOKEN missing or empty the import
\* fails with the error of the first failing check, before the
\* directory-listing patch is installed and before any agent or team is
\* constructed, and main() never runs.
C7_MissingCredentialIsFatal ==
    MissingCredential =>
        /\ ~patched
        /\ agents = <<>>
        /\ teams = <<>>
        /\ load_pc \in {"start", "providers", "failed"}
        /\ load_pc = "providers" => ~Falsy(env.GROQ_API_KEY)
        /\ load_pc = "failed" => load_error # ""
        /\ app_pc = "waiting"
        /\ ss_agent = AgentAbsent
        /\ ~ss_messages.present

\* GROQ_API_KEY is set, GITHUB_ACCESS_TOKEN is empty: the import failed at line 17.
C7_Witness ==
    /\ load_pc = "failed"
    /\ models_built
    /\ env.GITHUB_ACCESS_TOKEN = PyStr("")
    /\ load_error = "Missing GITHUB_ACCESS_TOKEN in environment variables"

\* C13: a token entered in the sidebar that differs from the stored one
\* clears the agent and reruns the script, and the agent the rerun constructs
\* then serves the turns that follow. So in the script run that a token
\* change forced, the sidebar's token check finds nothing more to change and
\* the agent constructed at the top of that run is kept.
C13_RebuiltAgentServes ==
    (app_pc = "sidebar" /\ inp = Rerun("token")) => ~TokenChanged

\* The access tokens the GithubTools toolkits of agent a are bound to.
GithubTokensOf(a) ==
    { a.tools[i].access_token :
          i \in { j \in 1..Len(a.tools) : a.tools[j].kind = "GithubTools" } }

LastMessage(messages) == messages.list[Len(messages.list)]

ErrorMessages == { ErrorMessage(text) : text \in ErrorTexts }

\* C15: the step that ends an agent run, other than the user interrupting
\* the script (which starts the script again), ends the turn (the script goes
\* back to waiting) and appends exactly one assistant message; when that message
\* is the error text, the list is the previous list plus that one record, so
\* the response accumulated from the fragments is not added, whether or not
\* any fragment had been streamed.
C15_FailedRunAddsOneErrorMessage ==
    [][ (app_pc = "agent_running" /\ app_pc' \notin {"agent_running", "ensure_agent"}) =>
            /\ app_pc' = "waiting"
            /\ Len(ss_messages'.list) = Len(ss_messages.list) + 1
            /\ LastMessage(ss_messages').role = "assistant"
            /\ LastMessage(ss_messages').content \in ErrorMessages =>
                   ss_messages' = AddMessage(ss_messages, "assistant",
                                             LastMessage(ss_messages').content, "None")
      ]_vars

C15_Witness ==
    /\ app_pc = "waiting"
    /\ Len(ss_messages.list) = 2
    /\ ss_messages.list[1].role = "user"
    /\ LastMessage(ss_messages) =
           Message("assistant", ErrorMessage("rate limit exceeded"), "None")

MessageFields == {"role", "content", "tool_calls"}

\* C20: every step that changes the session's message list leaves a list
\* that is either empty (the reset at agent construction or on restart) or
\* the previous records, unchanged and in the same order, followed by new
\* records {role, content, tool_calls}: exactly one, except when the empty
\* history is refilled from the stored runs, one add_message per shown
\* message. A reset of a non-empty list happens only where the agent is
\* constructed or in the sidebar's restart. add_message on a missing history
\* gives the one-record list.
C20_HistoryAppendOrReset ==
    [][ ss_messages' # ss_messages =>
            LET old == IF ss_messages.present THEN ss_messages.list ELSE <<>>
                new == ss_messages'.list
            IN  /\ ss_messages'.present
                /\ \/ /\ new = <<>>
                      /\ old # <<>> => app_pc \in {"ensure_agent", "sidebar"}
                   \/ /\ Len(new) > Len(old)
                      /\ SubSeq(new, 1, Len(old)) = old
                      /\ \A i \in (Len(old) + 1)..Len(new) : DOMAIN new[i] = MessageFields
                      /\ Len(new) = Len(old) + 1 \/ (app_pc = "hydrate" /\ old = <<>>)
                /\ \A q \in SampleQueries :
                       AddMessage(NoMessageList, "user", q, "None")
                           = MessageList(<<Message("user", q, "None")>>)
      ]_vars

\* Three records appended one after another, the earlier ones untouched.
C20_Witness ==
    /\ ss_messages.present
    /\ Len(ss_messages.list) = 3
    /\ ss_messages.list[1].role = "user"
    /\ ss_messages.list[2].role = "assistant"
    /\ ss_messages.list[3].role = "user"
    /\ app_pc = "agent_running"

\* C21: an agent run starts only in a script run whose trigger added a user
\* message (the submitted prompt or a sample query), with that message last
\* in the list, and the step that ends the agent run appends exactly one
\* assistant record after it; so a rerun with no new user message starts no
\* agent run and no user message is answered twice.
C21_EachUserMessageAnsweredOnce ==
    [][ /\ (app_pc # "agent_running" /\ app_pc' = "agent_running") =>
               /\ LastMessage(ss_messages).role = "user"
               /\ app_run'.message = LastMessage(ss_messages).content
               /\ inp.kind \in {"chat", "sample"}
        /\ (app_pc = "agent_running" /\ app_pc' # "agent_running") =>
               /\ Len(ss_messages'.list) = Len(ss_messages.list) + 1
               /\ SubSeq(ss_messages'.list, 1, Len(ss_messages.list)) = ss_messages.list
               /\ LastMessage(ss_messages').role = "assistant"
      ]_vars

=============================================================================
